---- MODULE Spec2Model ----
(***************************************************************************)
(* SegmentJourneyPredictor                                                 *)
(* (src/src/CustomerJourneyOptimizer/journey/segment_journey_predictor.py) *)
(*                                                                         *)
(* A Markov transition model fitted from a journey log, with single-step   *)
(* prediction, greedy roll-out and a beam search for the most likely       *)
(* paths.                                                                  *)
(*                                                                         *)
(* Numbers.  Matrix entries and path probabilities are IEEE doubles in the *)
(* code.  Every entry is count / row_sum with small integer operands, so   *)
(* it is modelled as the fraction num / den in lowest terms; a product of  *)
(* entries is the fraction num / (den * 2^exp), where exp holds the powers *)
(* of two a long product gathers.  The quotient 0 / 0, which numpy         *)
(* evaluates to nan, is the value NaN below.  Float comparisons of nan are *)
(* all false (FloatEq, FloatLt, FloatGe).  A product below the smallest    *)
(* normal double, 2^-1022, is rounded to the nearest multiple of 2^-1074   *)
(* as a double is, so a product of 2^-1075 or less is 0.0.  The rounding   *)
(* of the 53-bit mantissa of a normal double is not modelled: within the   *)
(* bounds of this model a product of entries is either dyadic or of the    *)
(* form 2^k * fl(1/3)^m, for which double rounding agrees with the exact   *)
(* product, so equal fractions are equal doubles and conversely.           *)
(***************************************************************************)
EXTENDS Integers, Sequences, FiniteSets, TLC

(***************************************************************************)
(* Bounds of the model.                                                    *)
(***************************************************************************)
MaxRecords == 4
MaxSteps == 2
MaxTopK == 2
MaxRefitRecords == 2
MaxLiveRecords == 3
LongSteps == 2150

\* An attribute is Python's None, or holds a value.
None == [none |-> TRUE]
Some(v) == [none |-> FALSE, value |-> v]

\* customer_id values of the journey log (opaque keys).
Customers == {"c1", "c2"}

\* timestamp values of the journey log.
Timestamps == {1, 2}

\* Segment labels in their sort order (the order np.unique gives strings).
LabelOrder == <<"A", "B", "C">>

\* Labels that occur in journey logs, and labels passed to the lookups.
LogLabels == {"A", "B"}
QueryLabels == {"A", "B", "C"}

\* The columns fit reads from the DataFrame.
AllColumns == {"customer_id", "timestamp", "segment"}

\* DataFrames with a missing column as well as well-formed ones.
ColumnSets == {AllColumns} \cup {AllColumns \ {c} : c \in AllColumns}

FullRows == [customer_id : Customers, timestamp : Timestamps, segment : LogLabels]

RowSet(cols) == {[c \in cols |-> r[c]] : r \in FullRows}

\* journey_data: a DataFrame, as its column set and its rows in index order.
JourneyData ==
  UNION {{[columns |-> cols, rows |-> rs] :
            rs \in UNION {[1..n -> RowSet(cols)] : n \in 0..MaxRecords}} :
         cols \in ColumnSets}

\* The logs a caller passes to fit on an instance it fits again.
RefitData ==
  UNION {{[columns |-> cols, rows |-> rs] :
            rs \in UNION {[1..n -> RowSet(cols)] : n \in 0..MaxRefitRecords}} :
         cols \in ColumnSets}

(***************************************************************************)
(* Floating point values.                                                  *)
(***************************************************************************)
RECURSIVE GCD(_, _)
GCD(a, b) == IF b = 0 THEN a ELSE GCD(b, a % b)

NaN == [num |-> 0, den |-> 0, exp |-> 0]
Zero == [num |-> 0, den |-> 1, exp |-> 0]
One == [num |-> 1, den |-> 1, exp |-> 0]

IsNaN(x) == x.den = 0

\* How often 2 divides n > 0, and what is left of n.
RECURSIVE TwoExponent(_)
TwoExponent(n) == IF n % 2 = 0 THEN 1 + TwoExponent(n \div 2) ELSE 0

OddPart(n) == n \div (2 ^ TwoExponent(n))

\* The value n / (d * 2^e), for n >= 0, d > 0, e >= 0, in its one
\* representation: num / den in lowest terms, and in exp the powers of two
\* of the denominator beyond the tenth.
Float(n, d, e) ==
  IF n = 0 THEN Zero
  ELSE LET g == GCD(n, d)
           k == TwoExponent(d \div g) + e - TwoExponent(n \div g)
           held == IF k < 10 THEN k ELSE 10
       IN IF k <= 0
          THEN [num |-> OddPart(n \div g) * 2 ^ (0 - k), den |-> OddPart(d \div g),
                exp |-> 0]
          ELSE [num |-> OddPart(n \div g), den |-> OddPart(d \div g) * 2 ^ held,
                exp |-> k - held]

\* numpy true division of two non-negative counts: n / d, nan for 0 / 0.
\* (n > 0 with d = 0 would be inf; a count never exceeds its row sum.)
Div(n, d) == IF d = 0 THEN NaN ELSE Float(n, d, 0)

\* x < y for two values that are not nan.  The values are
\* x.num / (odd part of x.den * 2^kx) and likewise for y; the two sides are
\* cross-multiplied with the powers of two they do not share.  Numerators
\* and odd parts stay far below 2^14 in this model, so a side that carries
\* more than 14 powers of two beyond the other is the greater unless it is 0.
Less(x, y) ==
  LET kx == TwoExponent(x.den) + x.exp
      ky == TwoExponent(y.den) + y.exp
      m == IF kx < ky THEN kx ELSE ky
      a == x.num * OddPart(y.den)
      b == y.num * OddPart(x.den)
  IN IF ky - m > 14 THEN a = 0 /\ b > 0
     ELSE IF kx - m > 14 THEN b > 0
     ELSE a * 2 ^ (ky - m) < b * 2 ^ (kx - m)

\* float comparisons: every comparison with nan is false
FloatLt(x, y) == ~IsNaN(x) /\ ~IsNaN(y) /\ Less(x, y)
FloatEq(x, y) == ~IsNaN(x) /\ ~IsNaN(y) /\ ~Less(x, y) /\ ~Less(y, x)
FloatGe(x, y) == ~IsNaN(x) /\ ~IsNaN(y) /\ ~Less(x, y)

\* IEEE 754 binary64: the smallest normal value is 2^-1022 and the values
\* below it are the multiples of 2^-1074.
MinNormalExponent == 1022
MinSubnormalExponent == 1074

MinNormal == Float(1, 1, MinNormalExponent)

\* n / d rounded to the nearest integer, a tie to the even one.
RoundHalfEven(n, d) ==
  LET q == n \div d
      r == n % d
  IN IF 2 * r < d THEN q
     ELSE IF 2 * r > d THEN q + 1
     ELSE IF q % 2 = 0 THEN q ELSE q + 1

\* The double nearest to the exact value x >= 0.  A value of the normal
\* range is kept.  A smaller one is rounded to a multiple of 2^-1074: it is
\* no / (do * 2^k) with no and do odd, that is no * 2^s / do multiples for
\* s = 1074 - k.  (With do > 1 and s > 14 the multiple has more than 14
\* bits and its rounding is left out as that of a normal mantissa is.)
RoundToDouble(x) ==
  IF x.num = 0 \/ ~Less(x, MinNormal) THEN x
  ELSE LET no == OddPart(x.num)
           do == OddPart(x.den)
           k == TwoExponent(x.den) + x.exp - TwoExponent(x.num)
           s == MinSubnormalExponent - k
       IN IF s >= 0
          THEN IF do = 1 \/ s > 14 THEN x
               ELSE Float(RoundHalfEven(no * 2 ^ s, do), 1, MinSubnormalExponent)
          ELSE IF 0 - s > 14 THEN Zero
               ELSE Float(RoundHalfEven(no, do * 2 ^ (0 - s)), 1, MinSubnormalExponent)

\* float multiplication (line 112): nan when an operand is nan, else the
\* double nearest to the product.
Mul(x, y) ==
  IF IsNaN(x) \/ IsNaN(y) THEN NaN
  ELSE RoundToDouble(Float(x.num * y.num,
                           OddPart(x.den) * OddPart(y.den),
                           TwoExponent(x.den) + TwoExponent(y.den) + x.exp + y.exp))


(***************************************************************************)
(* State.                                                                  *)
(***************************************************************************)
VARIABLES
  transition_matrix,  \* self.transition_matrix: None, or rows 0..N-1 of entries 0..N-1
  segment_encoder,    \* self.segment_encoder: None while unfitted, else its classes_
  segments,           \* self.segments: None, or the classes_ array
  journey_data,       \* the DataFrame the caller holds and passes to fit
  pc,                 \* "idle", or "mlp_loop" inside most_likely_paths
  frame,              \* locals of the running most_likely_paths call
  result,             \* outcome of the last call, until the caller takes it
  transition_counts,  \* history: transition_matrix as it was at line 36 of the last fit
  fit_completed,      \* history: some call of fit has returned normally
  stable_sort,        \* the build: sort_values keeps equal timestamps in index order
  model_before,       \* history: the model as the fit call reported in result found it
  calls               \* the call each concurrent caller has under way, with its locals

vars == <<transition_matrix, segment_encoder, segments, journey_data, pc, frame,
          result, transition_counts, fit_completed, stable_sort, model_before,
          calls>>

Range(s) == {s[i] : i \in DOMAIN s}

NoResult == [op |-> "none"]
NoFrame == [op |-> "none"]

\* journey_data once the caller has let go of the DataFrame.
NoData == [discarded |-> TRUE]

\* model_before while no fit call is reported in result, and the vocabulary
\* and matrix a fit call found.
NoSnapshot == [taken |-> FALSE]
Snapshot(v) == [taken |-> TRUE, value |-> v]

\* The threads that share the instance, and a thread with no call under way.
Callers == {"t1", "t2"}
NoCall == [pc |-> "idle"]
NoCalls == [t \in Callers |-> NoCall]

(***************************************************************************)
(* LabelEncoder.                                                           *)
(***************************************************************************)
\* Mutant of EncoderFit: the classes of an earlier fit are kept beside the
\* labels of the column.
EncoderFitAccumulating(column) ==
  SelectSeq(LabelOrder,
            LAMBDA l : \/ l \in Range(column)
                       \/ segment_encoder # None /\ l \in Range(segment_encoder.value))

\* Mutant of EncoderFit: an empty column is given a default class.
EncoderFitWithDefault(column) ==
  IF column = <<>> THEN <<LabelOrder[1]>>
  ELSE SelectSeq(LabelOrder, LAMBDA l : l \in Range(column))

\* Mutant of EncoderFit: the classes are kept in the order of first appearance.
EncoderFitFirstSeen(column) ==
  LET first == SelectSeq([i \in DOMAIN column |-> i],
                         LAMBDA i : \A j \in 1..(i - 1) : column[j] # column[i])
  IN [k \in DOMAIN first |-> column[first[k]]]

\* LabelEncoder.fit: classes_ = the sorted distinct labels of the column.
EncoderFit(column) == SelectSeq(LabelOrder, LAMBDA l : l \in Range(column))

Known(classes, label) == \E i \in DOMAIN classes : classes[i] = label

\* LabelEncoder.transform of one known label: its index, counted from 0.
Encode(classes, label) == (CHOOSE i \in DOMAIN classes : classes[i] = label) - 1

\* LabelEncoder.inverse_transform of one index.
Decode(classes, index) == classes[index + 1]

(***************************************************************************)
(* fit (lines 12-39).                                                      *)
(***************************************************************************)
Column(jd, name) == [i \in DOMAIN jd.rows |-> jd.rows[i][name]]

\* np.zeros((n, n))
Zeros(n) == [i \in 0..(n - 1) |-> [j \in 0..(n - 1) |-> Zero]]

\* journey_data['customer_id'].unique(): distinct values in order of appearance.
RECURSIVE Unique(_)
Unique(column) ==
  IF column = <<>> THEN <<>>
  ELSE LET front == Unique(SubSeq(column, 1, Len(column) - 1))
           last == column[Len(column)]
       IN IF last \in Range(front) THEN front ELSE Append(front, last)

\* Mutant of CustomerRows: the filter on customer_id is lost.
CustomerRowsUnfiltered(jd, customer_id) == [i \in DOMAIN jd.rows |-> i]

\* journey_data[journey_data['customer_id'] == customer_id]: the positions of
\* that customer's rows, in index order.
CustomerRows(jd, customer_id) ==
  SelectSeq([i \in DOMAIN jd.rows |-> i],
            LAMBDA i : jd.rows[i]["customer_id"] = customer_id)

\* .sort_values('timestamp') on the selected rows: the orders it may return.
\* It is called with the default kind='quicksort', which pandas and numpy
\* document as not stable: whether rows with equal timestamps keep their index
\* order depends on the build (stable_sort).  On a build where they need not,
\* they may come out in any order.
SortValues(jd, positions) ==
  LET n == Len(positions)
  IN {s \in {[k \in 1..n |-> positions[pi[k]]] : pi \in Permutations(1..n)} :
        \A k \in 1..(n - 1) :
          \/ jd.rows[s[k]]["timestamp"] < jd.rows[s[k + 1]]["timestamp"]
          \/ /\ jd.rows[s[k]]["timestamp"] = jd.rows[s[k + 1]]["timestamp"]
             /\ stable_sort => s[k] < s[k + 1]}

\* The sorted journey of every customer of the log: one choice per customer.
SortedJourneys(jd, customers) ==
  LET C == Range(customers)
      sorted == [c \in C |-> SortValues(jd, CustomerRows(jd, c))]
  IN {f \in [C -> UNION {sorted[c] : c \in C}] : \A c \in C : f[c] \in sorted[c]}

\* Mutant of Increment: the two indices are swapped.
IncrementTransposed(matrix, from_segment, to_segment) ==
  [matrix EXCEPT ![to_segment][from_segment].num = @ + 1]

\* self.transition_matrix[from_segment, to_segment] += 1
Increment(matrix, from_segment, to_segment) ==
  [matrix EXCEPT ![from_segment][to_segment].num = @ + 1]

\* lines 32-35: the loop over range(len(customer_journey) - 1), from index i
\* (counted from 1 here) onward.
RECURSIVE CountJourney(_, _, _, _)
CountJourney(matrix, encoded, customer_journey, i) ==
  IF i > Len(customer_journey) - 1 THEN matrix
  ELSE CountJourney(Increment(matrix,
                              encoded[customer_journey[i]],
                              encoded[customer_journey[i + 1]]),
                    encoded, customer_journey, i + 1)

\* lines 30-35: the loop over the unique customers, from the k-th onward;
\* journeys[c] is what sort_values returned for customer c.
RECURSIVE CountCustomers(_, _, _, _, _)
CountCustomers(matrix, encoded, customers, journeys, k) ==
  IF k > Len(customers) THEN matrix
  ELSE CountCustomers(CountJourney(matrix, encoded, journeys[customers[k]], 1),
                      encoded, customers, journeys, k + 1)

\* line 38: self.transition_matrix.sum(axis=1) (the entries are whole counts)
RECURSIVE SumTo(_, _)
SumTo(row, j) == IF j < 0 THEN 0 ELSE row[j].num + SumTo(row, j - 1)

RowSums(matrix, n) == [i \in 0..(n - 1) |-> SumTo(matrix[i], n - 1)]

\* line 39: self.transition_matrix / row_sums[:, np.newaxis]
Normalize(matrix, n) ==
  LET row_sums == RowSums(matrix, n)
  IN [i \in 0..(n - 1) |->
        [j \in 0..(n - 1) |-> Div(matrix[i][j].num, row_sums[i])]]

\* line 20: journey_data['encoded_segment'] = transform(journey_data['segment'])
WithEncoded(jd, classes) ==
  [columns |-> jd.columns \cup {"encoded_segment"},
   rows |-> [i \in DOMAIN jd.rows |->
               [c \in jd.columns \cup {"encoded_segment"} |->
                  IF c = "encoded_segment"
                  THEN Encode(classes, jd.rows[i]["segment"])
                  ELSE jd.rows[i][c]]]]

FitRaises(error) == [op |-> "fit", out |-> [status |-> error]]
FitReturns == [op |-> "fit", out |-> [status |-> "ok"]]

\* fit(journey_data).  A missing column raises KeyError where the column is
\* first read: 'segment' at line 19, 'customer_id' at line 30, 'timestamp'
\* at line 31 (reached only when the log has a row).
Fit ==
  /\ pc = "idle"
  /\ result = NoResult
  /\ journey_data # NoData
  /\ IF "segment" \notin journey_data.columns
     THEN /\ result' = FitRaises("KeyError")
          /\ UNCHANGED <<transition_matrix, segment_encoder, segments,
                         journey_data, transition_counts, fit_completed>>
     ELSE LET classes == EncoderFit(Column(journey_data, "segment"))
              jd == WithEncoded(journey_data, classes)
              encoded == Column(jd, "encoded_segment")
              n_segments == Len(classes)
          IN /\ segment_encoder' = Some(classes)
             /\ journey_data' = jd
             /\ segments' = Some(classes)
             /\ IF \/ "customer_id" \notin jd.columns
                   \/ "timestamp" \notin jd.columns /\ jd.rows # <<>>
                THEN /\ transition_matrix' = Some(Zeros(n_segments))
                     /\ result' = FitRaises("KeyError")
                     /\ UNCHANGED <<transition_counts, fit_completed>>
                ELSE LET customers == Unique(Column(jd, "customer_id"))
                     IN \E journeys \in SortedJourneys(jd, customers) :
                          LET counts == CountCustomers(Zeros(n_segments), encoded,
                                                       customers, journeys, 1)
                          IN /\ transition_counts' = Some(counts)
                             /\ transition_matrix' = Some(Normalize(counts, n_segments))
                             /\ result' = FitReturns
                             /\ fit_completed' = TRUE
  /\ model_before' = Snapshot([segments |-> segments,
                                transition_matrix |-> transition_matrix])
  /\ UNCHANGED <<pc, frame, stable_sort, calls>>

(***************************************************************************)
(* Lookups on the model (lines 41-88).                                     *)
(***************************************************************************)
Raises(error) == [status |-> error]
Returns(value) == [status |-> "ok", value |-> value]

\* Mutant of ArgMax: the last index holding the maximum is taken.
ArgMaxLast(row, n) ==
  LET Best(j) == \A k \in 0..(n - 1) : IsNaN(row[j]) \/ FloatGe(row[j], row[k])
  IN CHOOSE j \in 0..(n - 1) : Best(j) /\ \A k \in (j + 1)..(n - 1) : ~Best(k)

\* np.argmax over a row of n entries: the first index holding the maximum;
\* numpy orders nan above every number, so a nan wins.
ArgMax(row, n) ==
  LET Best(j) == \A k \in 0..(n - 1) : IsNaN(row[j]) \/ FloatGe(row[j], row[k])
  IN CHOOSE j \in 0..(n - 1) : Best(j) /\ \A k \in 0..(j - 1) : ~Best(k)

\* Mutant of predict_next_segment: a row without a number (no outbound
\* transition was observed) is refused, as np.nanargmax would.
predict_next_segmentRefusingNan(current_segment) ==
  IF transition_matrix = None THEN Raises("not_fitted")
  ELSE LET classes == segment_encoder.value
       IN IF ~Known(classes, current_segment) THEN Raises("unknown_segment")
          ELSE LET current_encoded == Encode(classes, current_segment)
                   row == transition_matrix.value[current_encoded]
               IN IF \A j \in 0..(Len(classes) - 1) : IsNaN(row[j])
                  THEN Raises("no_outbound_transitions")
                  ELSE Returns(Decode(classes, ArgMax(row, Len(classes))))

\* predict_next_segment(current_segment), lines 48-53
predict_next_segment(current_segment) ==
  IF transition_matrix = None THEN Raises("not_fitted")
  ELSE LET classes == segment_encoder.value
       IN IF ~Known(classes, current_segment) THEN Raises("unknown_segment")
          ELSE LET current_encoded == Encode(classes, current_segment)
                   next_encoded == ArgMax(transition_matrix.value[current_encoded],
                                          Len(classes))
               IN Returns(Decode(classes, next_encoded))

\* Mutant of JourneyLoop: current_segment is not moved on to next_segment.
RECURSIVE JourneyLoopStale(_, _, _)
JourneyLoopStale(journey, current_segment, steps) ==
  IF steps <= 0 THEN Returns(journey)
  ELSE LET next == predict_next_segment(current_segment)
       IN IF next.status # "ok" THEN next
          ELSE JourneyLoopStale(Append(journey, next.value), current_segment, steps - 1)

\* Mutant of JourneyLoop: the walk stops when it comes back to a segment it
\* has already visited.
RECURSIVE JourneyLoopCycleCut(_, _, _)
JourneyLoopCycleCut(journey, current_segment, steps) ==
  IF steps <= 0 THEN Returns(journey)
  ELSE LET next == predict_next_segment(current_segment)
       IN IF next.status # "ok" THEN next
          ELSE IF next.value \in Range(journey) THEN Returns(journey)
          ELSE JourneyLoopCycleCut(Append(journey, next.value), next.value, steps - 1)

\* lines 69-72: the loop of predict_journey with steps iterations left
RECURSIVE JourneyLoop(_, _, _)
JourneyLoop(journey, current_segment, steps) ==
  IF steps <= 0 THEN Returns(journey)
  ELSE LET next == predict_next_segment(current_segment)
       IN IF next.status # "ok" THEN next
          ELSE JourneyLoop(Append(journey, next.value), next.value, steps - 1)

\* predict_journey(start_segment, n_steps), lines 63-74
predict_journey(start_segment, n_steps) ==
  IF transition_matrix = None THEN Raises("not_fitted")
  ELSE JourneyLoop(<<start_segment>>, start_segment, n_steps)

\* segment_transition_probabilities(segment), lines 83-88: the dict, as the
\* function from its keys to their values.
segment_transition_probabilities(segment) ==
  IF transition_matrix = None THEN Raises("not_fitted")
  ELSE LET classes == segment_encoder.value
       IN IF ~Known(classes, segment) THEN Raises("unknown_segment")
          ELSE LET segment_index == Encode(classes, segment)
                   probabilities == transition_matrix.value[segment_index]
               IN Returns([l \in Range(segments.value) |->
                             probabilities[Encode(segments.value, l)]])

\* The prediction methods take no DataFrame and touch none; they are called
\* once the caller has let go of the log (Discard), from any model state.
CanCall == pc = "idle" /\ result = NoResult /\ journey_data = NoData

Frame == <<transition_matrix, segment_encoder, segments, journey_data,
           transition_counts, fit_completed, stable_sort, model_before,
                 calls>>

PredictNextSegment ==
  /\ CanCall
  /\ \E current_segment \in QueryLabels :
       result' = [op |-> "predict_next_segment",
                  args |-> [segment |-> current_segment],
                  out |-> predict_next_segment(current_segment)]
  /\ UNCHANGED <<Frame, pc, frame>>

PredictJourney ==
  /\ CanCall
  /\ \E start_segment \in QueryLabels, n_steps \in (0 - 1)..MaxSteps :
       result' = [op |-> "predict_journey",
                  args |-> [segment |-> start_segment, n_steps |-> n_steps],
                  out |-> predict_journey(start_segment, n_steps)]
  /\ UNCHANGED <<Frame, pc, frame>>

\* Mutant of SegmentTransitionProbabilities: the nan of the row are replaced
\* by zeros in place, in the matrix itself.
SegmentTransitionProbabilitiesInPlace ==
  /\ CanCall
  /\ \E segment \in QueryLabels :
       LET out == segment_transition_probabilities(segment)
       IN /\ result' = [op |-> "segment_transition_probabilities",
                        args |-> [segment |-> segment],
                        out |-> out]
          /\ transition_matrix' =
               IF out.status # "ok" THEN transition_matrix
               ELSE Some([transition_matrix.value EXCEPT
                            ![Encode(segment_encoder.value, segment)] =
                               [j \in DOMAIN @ |-> IF IsNaN(@[j]) THEN Zero ELSE @[j]]])
  /\ UNCHANGED <<segment_encoder, segments, journey_data, transition_counts,
                 fit_completed, stable_sort, model_before, pc, frame,
                 calls>>

SegmentTransitionProbabilities ==
  /\ CanCall
  /\ \E segment \in QueryLabels :
       result' = [op |-> "segment_transition_probabilities",
                  args |-> [segment |-> segment],
                  out |-> segment_transition_probabilities(segment)]
  /\ UNCHANGED <<Frame, pc, frame>>

(***************************************************************************)
(* most_likely_paths (lines 90-126), one action per loop iteration.        *)
(***************************************************************************)
\* Mutant of Expand: the next segment replaces the last one of the path.
ExpandInPlace(paths, matrix, n) ==
  [k \in 1..(Len(paths) * n) |->
     LET held == paths[((k - 1) \div n) + 1]
         next_segment == (k - 1) % n
         current == held.path[Len(held.path)]
     IN [path |-> [held.path EXCEPT ![Len(held.path)] = next_segment],
         prob |-> Mul(held.prob, matrix[current][next_segment])]]

\* lines 108-112: every held path extended by every segment index, in the
\* order of the two nested loops.
Expand(paths, matrix, n) ==
  [k \in 1..(Len(paths) * n) |->
     LET held == paths[((k - 1) \div n) + 1]
         next_segment == (k - 1) % n
         current == held.path[Len(held.path)]
     IN [path |-> Append(held.path, next_segment),
         prob |-> Mul(held.prob, matrix[current][next_segment])]]

\* Mutant of InsertDescending: x goes in front of the entries it ties with.
RECURSIVE InsertDescendingTiesFirst(_, _, _)
InsertDescendingTiesFirst(sorted, x, i) ==
  IF i > Len(sorted) THEN Append(sorted, x)
  ELSE IF ~FloatLt(x.prob, sorted[i].prob)
       THEN SubSeq(sorted, 1, i - 1) \o <<x>> \o SubSeq(sorted, i, Len(sorted))
       ELSE InsertDescendingTiesFirst(sorted, x, i + 1)

\* Insertion of x into a list kept in descending order, behind every entry
\* that is not smaller (x[1] < y[1] false keeps y in front).
RECURSIVE InsertDescending(_, _, _)
InsertDescending(sorted, x, i) ==
  IF i > Len(sorted) THEN Append(sorted, x)
  ELSE IF FloatLt(sorted[i].prob, x.prob)
       THEN SubSeq(sorted, 1, i - 1) \o <<x>> \o SubSeq(sorted, i, Len(sorted))
       ELSE InsertDescending(sorted, x, i + 1)

\* The stable descending sort of a list by x[1].
RECURSIVE StableSortDescending(_)
StableSortDescending(list) ==
  IF list = <<>> THEN <<>>
  ELSE InsertDescending(StableSortDescending(SubSeq(list, 1, Len(list) - 1)),
                        list[Len(list)], 1)

\* Mutant of Sorted: the candidates are left in the order of expansion.
Unsorted(list) == {list}

\* sorted(new_paths, key=lambda x: x[1], reverse=True): the lists it may
\* return.  sorted is a stable comparison sort.  When the keys hold no nan,
\* or nan beside a single number, x < y is a strict weak order and the
\* result is the stable descending sort.  With nan beside two or more
\* different numbers the comparisons are inconsistent and the result
\* depends on the comparisons the build's sort happens to make: any order.
Sorted(list) ==
  LET keys == {list[i].prob : i \in DOMAIN list}
      n == Len(list)
  IN IF (\A x \in keys : ~IsNaN(x)) \/ Cardinality({x \in keys : ~IsNaN(x)}) <= 1
     THEN {StableSortDescending(list)}
     ELSE {[k \in 1..n |-> list[pi[k]]] : pi \in Permutations(1..n)}

\* Mutant of Slice: one entry too many is kept.
SliceOneMore(list, k) ==
  SubSeq(list, 1, IF k + 1 < Len(list) THEN k + 1 ELSE Len(list))

\* list[:k]
Slice(list, k) ==
  IF k >= 0
  THEN SubSeq(list, 1, IF k < Len(list) THEN k ELSE Len(list))
  ELSE SubSeq(list, 1, Len(list) + k)

\* Mutant of InitialPaths: the search starts from probability 0.
InitialPathsZero(start_index) == <<[path |-> <<start_index>>, prob |-> Zero]>>

\* paths = [([start_index], 1.0)], line 105
InitialPaths(start_index) == <<[path |-> <<start_index>>, prob |-> One]>>

\* lines 99-105: the checks and the initial working set
MostLikelyPaths ==
  /\ CanCall
  /\ \E start_segment \in QueryLabels, n_steps \in (0 - 1)..MaxSteps,
        top_k \in (0 - 1)..MaxTopK :
       LET args == [segment |-> start_segment, n_steps |-> n_steps, top_k |-> top_k]
           Fails(error) ==
             /\ result' = [op |-> "most_likely_paths", args |-> args,
                           out |-> Raises(error)]
             /\ UNCHANGED <<pc, frame>>
       IN IF transition_matrix = None THEN Fails("not_fitted")
          ELSE IF ~Known(segment_encoder.value, start_segment)
          THEN Fails("unknown_segment")
          ELSE LET start_index == Encode(segment_encoder.value, start_segment)
               IN /\ pc' = "mlp_loop"
                  /\ frame' = [op |-> "most_likely_paths", args |-> args,
                               iterations |-> 0,
                               paths |-> InitialPaths(start_index)]
                  /\ UNCHANGED result
  /\ UNCHANGED Frame

\* lines 107-115: one iteration of for _ in range(n_steps)
MostLikelyPathsIterate ==
  /\ pc = "mlp_loop"
  /\ frame.iterations < frame.args.n_steps
  /\ \E new_paths \in {Expand(frame.paths, transition_matrix.value,
                                Len(segment_encoder.value))} :
       \E sorted \in Sorted(new_paths) :
         frame' = [frame EXCEPT !.iterations = @ + 1,
                                !.paths = Slice(sorted, frame.args.top_k)]
  /\ UNCHANGED <<Frame, pc, result>>

\* lines 117-126: the indices back to segment names, and the return
MostLikelyPathsReturn ==
  /\ pc = "mlp_loop"
  /\ frame.iterations >= frame.args.n_steps
  /\ result' = [op |-> "most_likely_paths", args |-> frame.args,
                out |-> Returns(
                  [k \in DOMAIN frame.paths |->
                     [path |-> [i \in DOMAIN frame.paths[k].path |->
                                  Decode(segment_encoder.value, frame.paths[k].path[i])],
                      probability |-> frame.paths[k].prob]])]
  /\ pc' = "idle"
  /\ frame' = NoFrame
  /\ UNCHANGED Frame

\* The caller lets go of the DataFrame.
Discard ==
  /\ pc = "idle"
  /\ result = NoResult
  /\ journey_data # NoData
  /\ journey_data' = NoData
  /\ UNCHANGED <<transition_matrix, segment_encoder, segments, pc, frame, result,
                 transition_counts, fit_completed, stable_sort, model_before,
                 calls>>

\* The caller takes the return value or the exception of the finished call.
Return ==
  /\ pc = "idle"
  /\ result # NoResult
  /\ result' = NoResult
  /\ model_before' = NoSnapshot
  /\ UNCHANGED <<transition_matrix, segment_encoder, segments, journey_data,
                 transition_counts, fit_completed, stable_sort, pc, frame, calls>>

Init ==
  /\ transition_matrix = None
  /\ segment_encoder = None
  /\ segments = None
  /\ journey_data \in JourneyData
  /\ pc = "idle"
  /\ frame = NoFrame
  /\ result = NoResult
  /\ transition_counts = None
  /\ fit_completed = FALSE
  /\ stable_sort \in BOOLEAN
  /\ model_before = NoSnapshot
  /\ calls = NoCalls

Next ==
  \/ Fit
  \/ Discard
  \/ PredictNextSegment
  \/ PredictJourney
  \/ SegmentTransitionProbabilities
  \/ MostLikelyPaths
  \/ MostLikelyPathsIterate
  \/ MostLikelyPathsReturn
  \/ Return

Spec == Init /\ [][Next]_vars

\* A call that has entered the loop of most_likely_paths keeps running: the
\* loop body and the return are steps of one sequential call, with nothing
\* to wait for.
LiveData ==
  UNION {{[columns |-> cols, rows |-> rs] :
            rs \in UNION {[1..n -> RowSet(cols)] : n \in 0..MaxLiveRecords}} :
         cols \in ColumnSets}

InitLive ==
  /\ transition_matrix = None
  /\ segment_encoder = None
  /\ segments = None
  /\ journey_data \in LiveData
  /\ pc = "idle"
  /\ frame = NoFrame
  /\ result = NoResult
  /\ transition_counts = None
  /\ fit_completed = FALSE
  /\ stable_sort \in BOOLEAN
  /\ model_before = NoSnapshot
  /\ calls = NoCalls

SpecLive ==
  /\ InitLive
  /\ [][Next]_vars
  /\ WF_vars(MostLikelyPathsIterate)
  /\ WF_vars(MostLikelyPathsReturn)

(***************************************************************************)
(* One instance fitted again and again, on a new log each time.            *)
(***************************************************************************)
\* The caller builds another DataFrame to pass to fit.
Load ==
  /\ pc = "idle"
  /\ result = NoResult
  /\ journey_data = NoData
  /\ journey_data' \in RefitData
  /\ UNCHANGED <<transition_matrix, segment_encoder, segments, pc, frame, result,
                 transition_counts, fit_completed, stable_sort, model_before,
                 calls>>

InitRefit ==
  /\ transition_matrix = None
  /\ segment_encoder = None
  /\ segments = None
  /\ journey_data = NoData
  /\ pc = "idle"
  /\ frame = NoFrame
  /\ result = NoResult
  /\ transition_counts = None
  /\ fit_completed = FALSE
  /\ stable_sort \in BOOLEAN
  /\ model_before = NoSnapshot
  /\ calls = NoCalls

NextRefit ==
  \/ Load
  \/ Fit
  \/ Discard
  \/ Return

SpecRefit == InitRefit /\ [][NextRefit]_vars

(***************************************************************************)
(* One instance given the journey A, B, A, B, B of a single customer.      *)
(***************************************************************************)
\* The DataFrame of that journey: five records of c1 at timestamps 1..5.
ExampleLog ==
  [columns |-> AllColumns,
   rows |-> [i \in 1..5 |->
               [customer_id |-> "c1", timestamp |-> i,
                segment |-> <<"A", "B", "A", "B", "B">>[i]]]]

InitExample ==
  /\ transition_matrix = None
  /\ segment_encoder = None
  /\ segments = None
  /\ journey_data = ExampleLog
  /\ pc = "idle"
  /\ frame = NoFrame
  /\ result = NoResult
  /\ transition_counts = None
  /\ fit_completed = FALSE
  /\ stable_sort \in BOOLEAN
  /\ model_before = NoSnapshot
  /\ calls = NoCalls

SpecExample == InitExample /\ [][Next]_vars

(***************************************************************************)
(* One fitted instance shared by several threads that call the prediction  *)
(* methods.  A thread is preempted between any two steps of its call; the  *)
(* steps are the entry checks, each loop iteration and the return.         *)
(***************************************************************************)
\* lines 117-126: the index paths as label paths with their probabilities
PathsToLabels(paths) ==
  [k \in DOMAIN paths |->
     [path |-> [i \in DOMAIN paths[k].path |->
                  Decode(segment_encoder.value, paths[k].path[i])],
      probability |-> paths[k].prob]]

\* lines 107-115 run from a working set: the working sets the loop may hold
\* after steps iterations.
RECURSIVE BeamLoop(_, _, _)
BeamLoop(held, steps, top_k) ==
  IF steps <= 0 THEN held
  ELSE BeamLoop(UNION {{Slice(sorted, top_k) :
                          sorted \in Sorted(Expand(paths, transition_matrix.value,
                                                   Len(segment_encoder.value)))} :
                       paths \in held},
                steps - 1, top_k)

\* most_likely_paths(start_segment, n_steps, top_k) run from entry to return
\* by a single caller: the outcomes it may have.
most_likely_paths(start_segment, n_steps, top_k) ==
  IF transition_matrix = None THEN {Raises("not_fitted")}
  ELSE IF ~Known(segment_encoder.value, start_segment)
  THEN {Raises("unknown_segment")}
  ELSE LET start_index == Encode(segment_encoder.value, start_segment)
       IN {Returns(PathsToLabels(paths)) :
             paths \in BeamLoop({InitialPaths(start_index)}, n_steps, top_k)}

\* The arguments the threads call with: any label; step counts and widths
\* in range.
CallArgs(op) ==
  CASE op = "predict_next_segment" -> [segment : QueryLabels]
    [] op = "segment_transition_probabilities" -> [segment : QueryLabels]
    [] op = "predict_journey" -> [segment : QueryLabels, n_steps : 0..MaxSteps]
    [] op = "most_likely_paths" ->
         [segment : QueryLabels, n_steps : 0..MaxSteps, top_k : 1..MaxTopK]

\* What the thread actions leave alone: the instance and the first caller.
Instance == <<transition_matrix, segment_encoder, segments, journey_data,
              transition_counts, fit_completed, stable_sort, model_before,
              pc, frame, result>>

\* Mutant of WorkingSet: paths is kept where every call finds it, and a call
\* reads the list of whichever call is in the loop.
WorkingSetShared(t) ==
  calls[CHOOSE u \in Callers :
          calls[u].pc = "loop" /\ calls[u].op = "most_likely_paths"].paths

\* paths (lines 105, 115) is a local variable of the call.
WorkingSet(t) == calls[t].paths

\* Thread t calls a prediction method of the fitted instance.
Call(t) ==
  /\ calls[t] = NoCall
  /\ CanCall
  /\ fit_completed
  /\ \E op \in {"predict_next_segment", "predict_journey",
                 "segment_transition_probabilities", "most_likely_paths"} :
       \E args \in CallArgs(op) :
         calls' = [calls EXCEPT ![t] = [pc |-> "called", op |-> op, args |-> args]]
  /\ UNCHANGED Instance

\* The call of thread t has returned or raised.
Done(t, out) ==
  calls' = [calls EXCEPT ![t] = [pc |-> "done", op |-> calls[t].op,
                                 args |-> calls[t].args, out |-> out]]

\* The entry of the method: the checks of lines 48, 63, 83, 99 and what
\* follows up to the loop, or up to the return where there is no loop.
Begin(t) ==
  /\ calls[t].pc = "called"
  /\ LET op == calls[t].op
         args == calls[t].args
     IN IF transition_matrix = None THEN Done(t, Raises("not_fitted"))
        ELSE CASE op = "predict_next_segment" ->
                    Done(t, predict_next_segment(args.segment))
               [] op = "segment_transition_probabilities" ->
                    Done(t, segment_transition_probabilities(args.segment))
               [] op = "predict_journey" ->
                    calls' = [calls EXCEPT ![t] =
                                [pc |-> "loop", op |-> op, args |-> args,
                                 iterations |-> 0,
                                 journey |-> <<args.segment>>,
                                 current_segment |-> args.segment]]
               [] op = "most_likely_paths" ->
                    IF ~Known(segment_encoder.value, args.segment)
                    THEN Done(t, Raises("unknown_segment"))
                    ELSE calls' = [calls EXCEPT ![t] =
                                     [pc |-> "loop", op |-> op, args |-> args,
                                      iterations |-> 0,
                                      paths |-> InitialPaths(
                                        Encode(segment_encoder.value, args.segment))]]
  /\ UNCHANGED Instance

\* One iteration of the loop of predict_journey (lines 69-72) or of
\* most_likely_paths (lines 107-115).
Step(t) ==
  /\ calls[t].pc = "loop"
  /\ calls[t].iterations < calls[t].args.n_steps
  /\ IF calls[t].op = "predict_journey"
     THEN LET next == predict_next_segment(calls[t].current_segment)
          IN IF next.status # "ok" THEN Done(t, next)
             ELSE calls' = [calls EXCEPT ![t].iterations = @ + 1,
                                         ![t].journey = Append(@, next.value),
                                         ![t].current_segment = next.value]
     ELSE LET new_paths == Expand(WorkingSet(t), transition_matrix.value,
                                  Len(segment_encoder.value))
          IN \E sorted \in Sorted(new_paths) :
               calls' = [calls EXCEPT ![t].iterations = @ + 1,
                                      ![t].paths = Slice(sorted, calls[t].args.top_k)]
  /\ UNCHANGED Instance

\* The loop is over: line 74, or lines 117-126.
Finish(t) ==
  /\ calls[t].pc = "loop"
  /\ calls[t].iterations >= calls[t].args.n_steps
  /\ IF calls[t].op = "predict_journey"
     THEN Done(t, Returns(calls[t].journey))
     ELSE Done(t, Returns(PathsToLabels(WorkingSet(t))))
  /\ UNCHANGED Instance

\* Thread t takes the return value or the exception of its call.
Take(t) ==
  /\ calls[t].pc = "done"
  /\ calls' = [calls EXCEPT ![t] = NoCall]
  /\ UNCHANGED Instance

InitConcurrent ==
  /\ transition_matrix = None
  /\ segment_encoder = None
  /\ segments = None
  /\ journey_data \in LiveData
  /\ pc = "idle"
  /\ frame = NoFrame
  /\ result = NoResult
  /\ transition_counts = None
  /\ fit_completed = FALSE
  /\ stable_sort \in BOOLEAN
  /\ model_before = NoSnapshot
  /\ calls = NoCalls

NextConcurrent ==
  \/ Fit
  \/ Return
  \/ Discard
  \/ \E t \in Callers : Call(t)
  \/ \E t \in Callers : Begin(t)
  \/ \E t \in Callers : Step(t)
  \/ \E t \in Callers : Finish(t)
  \/ \E t \in Callers : Take(t)

SpecConcurrent == InitConcurrent /\ [][NextConcurrent]_vars

(***************************************************************************)
(* One fitted instance asked for the greedy walk and then for the search   *)
(* of width 1 over the same start and number of steps, a few steps or so   *)
(* many that the probability of the walk leaves the range of a double.     *)
(* The calls run one after the other, each step by step as above: thread   *)
(* t1 holds the journey while thread t2 searches.                          *)
(***************************************************************************)
\* The journeys of a single customer over four records at timestamps 1..4
\* in which no segment is left three times: every entry of the fitted matrix
\* is 0, 1/2 or 1 (or nan), so every product along a walk is a power of two
\* and the value kept here is the double the code computes, however long
\* the walk.
WalkLogs ==
  {[columns |-> AllColumns,
    rows |-> [i \in 1..4 |->
                [customer_id |-> "c1", timestamp |-> i, segment |-> journey[i]]]] :
     journey \in {j \in [1..4 -> LogLabels] :
                    \A l \in LogLabels : Cardinality({i \in 1..3 : j[i] = l}) # 3}}

\* predict_journey(start_segment, n_steps) is called.
AskJourney ==
  /\ calls = NoCalls
  /\ CanCall
  /\ fit_completed
  /\ \E start_segment \in QueryLabels, n_steps \in {MaxSteps, LongSteps} :
       calls' = [calls EXCEPT !["t1"] =
                   [pc |-> "called", op |-> "predict_journey",
                    args |-> [segment |-> start_segment, n_steps |-> n_steps]]]
  /\ UNCHANGED Instance

\* most_likely_paths(start_segment, n_steps, 1) is called with the start and
\* the steps of the journey that has come back.
AskPaths ==
  /\ calls["t1"].pc = "done"
  /\ calls["t2"] = NoCall
  /\ calls' = [calls EXCEPT !["t2"] =
                 [pc |-> "called", op |-> "most_likely_paths",
                  args |-> [segment |-> calls["t1"].args.segment,
                            n_steps |-> calls["t1"].args.n_steps,
                            top_k |-> 1]]]
  /\ UNCHANGED Instance

InitLongWalk ==
  /\ transition_matrix = None
  /\ segment_encoder = None
  /\ segments = None
  /\ journey_data \in WalkLogs
  /\ pc = "idle"
  /\ frame = NoFrame
  /\ result = NoResult
  /\ transition_counts = None
  /\ fit_completed = FALSE
  /\ stable_sort \in BOOLEAN
  /\ model_before = NoSnapshot
  /\ calls = NoCalls

NextLongWalk ==
  \/ Fit
  \/ Return
  \/ Discard
  \/ AskJourney
  \/ AskPaths
  \/ \E t \in Callers : Begin(t)
  \/ \E t \in Callers : Step(t)
  \/ \E t \in Callers : Finish(t)
  \/ \E t \in Callers : Take(t)

SpecLongWalk == InitLongWalk /\ [][NextLongWalk]_vars

(***************************************************************************)
(* Vocabulary of the properties.                                           *)
(***************************************************************************)
PredictionOps == {"predict_next_segment", "predict_journey",
                  "segment_transition_probabilities", "most_likely_paths"}

\* A call of fit has just returned normally.
FitReturned == result = FitReturns

\* A call of most_likely_paths has just returned a list.
PathsReturned == result.op = "most_likely_paths" /\ result.out.status = "ok"

\* Number of segments of the fitted vocabulary.
N == Len(segment_encoder.value)

\* Exact sum of the entries 0..j of a row without nan.
RECURSIVE RowTotal(_, _)
RowTotal(row, j) ==
  IF j < 0 THEN Zero
  ELSE LET rest == RowTotal(row, j - 1)
       IN Div(rest.num * row[j].den + row[j].num * rest.den, rest.den * row[j].den)

RowSumsToOne(row) ==
  /\ \A j \in DOMAIN row : ~IsNaN(row[j])
  /\ FloatEq(RowTotal(row, N - 1), One)

RowIsZero(row) == \A j \in DOMAIN row : FloatEq(row[j], Zero)

\* C1: after every successful fit each row of transition_matrix sums to 1 or
\* is entirely zero; the row of a segment never seen as the source of a
\* transition is all zeros.
C1_RowsSumToOneOrAreZero ==
  FitReturned =>
    \A i \in 0..(N - 1) :
      \/ RowSumsToOne(transition_matrix.value[i])
      \/ RowIsZero(transition_matrix.value[i])

\* The journeys of a log, stated from the log alone: for every customer an
\* arrangement of all of that customer's rows in which timestamps never
\* decrease.
OwnRows(customer_id) ==
  {p \in DOMAIN journey_data.rows :
     journey_data.rows[p]["customer_id"] = customer_id}

IsJourneyOf(journey, customer_id) ==
  /\ {journey[k] : k \in DOMAIN journey} = OwnRows(customer_id)
  /\ \A k \in 1..(Len(journey) - 1) :
       journey_data.rows[journey[k]]["timestamp"]
         <= journey_data.rows[journey[k + 1]]["timestamp"]

JourneysOf(customer_id) ==
  {journey \in [1..Cardinality(OwnRows(customer_id)) -> OwnRows(customer_id)] :
     IsJourneyOf(journey, customer_id)}

LogCustomers == {journey_data.rows[p]["customer_id"] : p \in DOMAIN journey_data.rows}

JourneysOfLog ==
  {js \in [LogCustomers -> UNION {JourneysOf(c) : c \in LogCustomers}] :
     \A c \in LogCustomers : js[c] \in JourneysOf(c)}

\* count(i -> j): the adjacent pairs (label i, then label j) of the journeys.
PairCount(js, i, j) ==
  LET rows == journey_data.rows
      classes == segments.value
  IN Cardinality({ck \in LogCustomers \X (1..Len(rows)) :
                    /\ ck[2] < Len(js[ck[1]])
                    /\ rows[js[ck[1]][ck[2]]]["segment"] = classes[i + 1]
                    /\ rows[js[ck[1]][ck[2] + 1]]["segment"] = classes[j + 1]})

RECURSIVE OutCount(_, _, _)
OutCount(js, i, k) == IF k < 0 THEN 0 ELSE PairCount(js, i, k) + OutCount(js, i, k - 1)

\* C2: after fit, for every source segment i with an observed outbound
\* transition and every j, transition_matrix[i][j] is count(i -> j) divided by
\* the sum over k of count(i -> k), counted over the adjacent pairs of the
\* per-customer journeys sorted by timestamp.
C2_EntriesAreRelativeFrequencies ==
  FitReturned =>
    \E js \in JourneysOfLog :
      \A i \in 0..(N - 1) :
        OutCount(js, i, N - 1) > 0 =>
          \A j \in 0..(N - 1) :
            LET entry == transition_matrix.value[i][j]
            IN /\ ~IsNaN(entry)
               /\ entry.num * OutCount(js, i, N - 1) = PairCount(js, i, j) * entry.den

\* C2 is exercised: a source with three outbound transitions, two to one target.
C2_Witness ==
  /\ FitReturned
  /\ \E i, j \in 0..(N - 1) : transition_matrix.value[i][j] = Div(2, 3)

RECURSIVE SumOver(_, _)
SumOver(S, f) ==
  IF S = {} THEN 0
  ELSE LET x == CHOOSE y \in S : TRUE IN f[x] + SumOver(S \ {x}, f)

\* Transitions counted by the last fit, over the whole matrix.
TotalCounted ==
  SumOver((0..(N - 1)) \X (0..(N - 1)),
          [ij \in (0..(N - 1)) \X (0..(N - 1)) |->
             transition_counts.value[ij[1]][ij[2]].num])

RecordsOf(customer_id) == Cardinality(OwnRows(customer_id))

\* Ordered pairs of two different records of one customer with labels i, j.
SameCustomerPairs(i, j) ==
  LET rows == journey_data.rows
      classes == segments.value
  IN Cardinality({pq \in (DOMAIN rows) \X (DOMAIN rows) :
                    /\ pq[1] # pq[2]
                    /\ rows[pq[1]]["customer_id"] = rows[pq[2]]["customer_id"]
                    /\ rows[pq[1]]["segment"] = classes[i + 1]
                    /\ rows[pq[2]]["segment"] = classes[j + 1]})

\* C3: fit counts no transition between records of two different customers,
\* however the customers' records are interleaved in the log: a customer
\* with n records contributes exactly n - 1 transitions, so the number of
\* counted transitions is the sum over the customers of (records - 1).
C3_TransitionsStayWithinCustomers ==
  FitReturned =>
    /\ TotalCounted = SumOver(LogCustomers, [c \in LogCustomers |-> RecordsOf(c) - 1])
    /\ \A i, j \in 0..(N - 1) :
         transition_counts.value[i][j].num <= SameCustomerPairs(i, j)

\* C3 is exercised: a single record of one customer lies between two records
\* of another, with a label that customer never has.
C3_Witness ==
  /\ FitReturned
  /\ Len(journey_data.rows) = 3
  /\ journey_data.rows[1]["customer_id"] = journey_data.rows[3]["customer_id"]
  /\ journey_data.rows[1]["customer_id"] # journey_data.rows[2]["customer_id"]
  /\ journey_data.rows[1]["segment"] = journey_data.rows[3]["segment"]
  /\ journey_data.rows[1]["segment"] # journey_data.rows[2]["segment"]
  /\ TotalCounted = 1

\* C4: on an instance on which fit has never completed successfully, each of
\* the four prediction methods fails with the 'model not fitted' error for
\* every argument, and returns no result.
C4_UnfittedCallsFailNotFitted ==
  ~fit_completed =>
    /\ pc # "mlp_loop"
    /\ result.op \in PredictionOps => result.out.status = "not_fitted"

\* C5: on a fitted model a segment label outside the fitted vocabulary raises
\* the 'unknown segment' error in each of the four prediction methods,
\* whatever the other arguments (n_steps = 0 included); no result is
\* returned.  Stated for a fitted vocabulary that is not empty and for the
\* n_steps the methods admit (n_steps >= 0).
C5_UnknownSegmentRaises ==
  (fit_completed /\ N >= 1) =>
    /\ pc = "mlp_loop" => Known(segment_encoder.value, frame.args.segment)
    /\ ( /\ result.op \in PredictionOps
         /\ ~Known(segment_encoder.value, result.args.segment)
         /\ "n_steps" \in DOMAIN result.args => result.args.n_steps >= 0 )
       => result.out.status = "unknown_segment"

(***************************************************************************)
(* Paths and their joint probabilities, stated from the matrix alone.      *)
(***************************************************************************)
\* All index paths of n_steps transitions from start_index.
AllPaths(start_index, n_steps) ==
  {p \in [1..(n_steps + 1) -> 0..(N - 1)] : p[1] = start_index}

\* Product of the matrix entries along the first k - 1 edges of an index
\* path, multiplied from the left as floats are; 1.0 without an edge.
RECURSIVE ProductAlong(_, _)
ProductAlong(path, k) ==
  IF k <= 1 THEN One
  ELSE Mul(ProductAlong(path, k - 1), transition_matrix.value[path[k - 1]][path[k]])

JointProbability(path) == ProductAlong(path, Len(path))

Indices(labels) == [i \in DOMAIN labels |-> Encode(segment_encoder.value, labels[i])]

Min(a, b) == IF a < b THEN a ELSE b

\* The returned probabilities are the top_k largest of the exhaustive
\* enumeration, as multisets: as many as top_k allows, each returned as often
\* as it occurs at most, and nothing left out that is greater than something
\* returned.
IsTopKOfAllPaths(returned, start_index, n_steps, top_k) ==
  LET all == AllPaths(start_index, n_steps)
      Occurs(v) == Cardinality({p \in all : JointProbability(p) = v})
      Given(v) == Cardinality({k \in DOMAIN returned : returned[k].probability = v})
  IN /\ Len(returned) = Min(top_k, Cardinality(all))
     /\ \A k \in DOMAIN returned :
          Given(returned[k].probability) <= Occurs(returned[k].probability)
     /\ \A p \in all :
          Given(JointProbability(p)) < Occurs(JointProbability(p)) =>
            \A k \in DOMAIN returned :
              ~FloatLt(returned[k].probability, JointProbability(p))

ValidPathsCall ==
  /\ PathsReturned
  /\ fit_completed
  /\ result.args.n_steps >= 0
  /\ result.args.top_k >= 1

\* C6: most_likely_paths(start, n_steps, top_k) returns the top_k highest
\* joint-probability paths of n_steps transitions from start: the multiset
\* of returned probabilities equals the top_k largest joint probabilities of
\* all N^n_steps paths from start.  Stated where every joint probability is a
\* number (nan has no place in an order) and for a build whose sort_values
\* is stable.
C6_ReturnsTopKOfAllPaths ==
  ( /\ ValidPathsCall
    /\ stable_sort
    /\ \A p \in AllPaths(Encode(segment_encoder.value, result.args.segment),
                         result.args.n_steps) : ~IsNaN(JointProbability(p)) )
  => IsTopKOfAllPaths(result.out.value,
                      Encode(segment_encoder.value, result.args.segment),
                      result.args.n_steps, result.args.top_k)

\* C6 as amended: for n_steps <= 1 the multiset of returned probabilities is
\* the top_k largest joint probabilities of all paths from start; beyond one
\* step the search keeps only extensions of the top_k paths held so far.
C6_ReturnsTopKWithinOneStep ==
  (ValidPathsCall /\ result.args.n_steps <= 1)
  => IsTopKOfAllPaths(result.out.value,
                      Encode(segment_encoder.value, result.args.segment),
                      result.args.n_steps, result.args.top_k)

\* The amended C6 is exercised: one step, one path kept out of two with
\* different probabilities.
C6_Witness ==
  /\ ValidPathsCall
  /\ result.args.n_steps = 1
  /\ result.args.top_k = 1
  /\ N = 2
  /\ result.out.value[1].probability = Div(2, 3)

\* C7: for every entry returned by most_likely_paths the reported probability
\* equals the product of the transition_matrix entries along the consecutive
\* edges of the returned path (1.0 for a path without edges).
C7_ProbabilityIsProductAlongPath ==
  PathsReturned =>
    \A k \in DOMAIN result.out.value :
      FloatEq(result.out.value[k].probability,
              JointProbability(Indices(result.out.value[k].path)))

\* C8: the list returned by most_likely_paths is ordered by probability,
\* non-increasing from the first entry to the last, for every fitted model
\* (a segment without observed outbound transitions included), start
\* segment, n_steps and top_k.
C8_ProbabilitiesNonIncreasing ==
  (PathsReturned /\ fit_completed) =>
    \A k \in 1..(Len(result.out.value) - 1) :
      FloatGe(result.out.value[k].probability, result.out.value[k + 1].probability)

\* C9: the working set of partial paths holds at most top_k paths before the
\* first and after every iteration of the search, and the returned list has
\* at most top_k entries, for every top_k >= 1 and n_steps >= 0.
C9_WorkingSetWithinTopK ==
  /\ ( pc = "mlp_loop" /\ frame.args.top_k >= 1 /\ frame.args.n_steps >= 0 )
     => Len(frame.paths) <= frame.args.top_k
  /\ ( PathsReturned /\ result.args.top_k >= 1 /\ result.args.n_steps >= 0 )
     => Len(result.out.value) <= result.args.top_k

\* C9 is exercised: an iteration has cut the expansions down to top_k.
C9_Witness ==
  /\ pc = "mlp_loop"
  /\ frame.iterations = 2
  /\ frame.args.top_k = 1
  /\ N = 2
  /\ Len(frame.paths) = 1

\* C10: every path returned by most_likely_paths(start, n_steps, top_k) has
\* exactly n_steps + 1 segments, starts with start, and holds only labels of
\* the fitted vocabulary (n_steps >= 0, as the method admits).
C10_PathsHaveLengthStartAndVocabulary ==
  (PathsReturned /\ result.args.n_steps >= 0) =>
    \A k \in DOMAIN result.out.value :
      LET path == result.out.value[k].path
      IN /\ Len(path) = result.args.n_steps + 1
         /\ path[1] = result.args.segment
         /\ \A i \in DOMAIN path : path[i] \in Range(segments.value)

\* C10 is exercised: two paths of two transitions, the second one leaving
\* the start segment.
C10_Witness ==
  /\ PathsReturned
  /\ result.args.n_steps = 2
  /\ Len(result.out.value) = 2
  /\ result.out.value[2].path[2] # result.args.segment

\* C11: most_likely_paths with n_steps = 0 on a fitted model and a known
\* start segment returns exactly one entry, whose path is [start] and whose
\* probability is 1.0, for every top_k >= 1.
C11_ZeroStepsReturnsStartAlone ==
  ( /\ result.op = "most_likely_paths"
    /\ fit_completed
    /\ Known(segment_encoder.value, result.args.segment)
    /\ result.args.n_steps = 0
    /\ result.args.top_k >= 1 )
  => /\ result.out.status = "ok"
     /\ result.out.value = <<[path |-> <<result.args.segment>>, probability |-> One]>>

\* C11 is exercised: a call with n_steps = 0 and top_k = 2 has returned on a
\* model of two segments.
C11_Witness ==
  /\ PathsReturned
  /\ fit_completed
  /\ N = 2
  /\ result.args.n_steps = 0
  /\ result.args.top_k = 2
  /\ Len(result.out.value) = 1

\* C12: most_likely_paths on a fitted model with top_k <= 0 or n_steps < 0
\* fails with the 'invalid argument' error and returns no result; the search
\* is never entered with such arguments.
C12_InvalidArgumentsRejected ==
  fit_completed =>
    /\ pc = "mlp_loop" => (frame.args.top_k >= 1 /\ frame.args.n_steps >= 0)
    /\ ( /\ result.op = "most_likely_paths"
         /\ Known(segment_encoder.value, result.args.segment)
         /\ (result.args.top_k <= 0 \/ result.args.n_steps < 0) )
       => result.out.status = "invalid_argument"

\* C13: predict_next_segment(s) on a fitted model with s in the vocabulary
\* returns the label whose column holds the maximum of row s: no entry of the
\* row is greater than the returned column's, and every column of a lower
\* index holds a smaller entry (of several maxima the lowest index wins).
C13_NextSegmentIsFirstMaximum ==
  ( /\ result.op = "predict_next_segment"
    /\ fit_completed
    /\ Known(segment_encoder.value, result.args.segment) )
  => /\ result.out.status = "ok"
     /\ Known(segment_encoder.value, result.out.value)
     /\ LET row == transition_matrix.value[Encode(segment_encoder.value,
                                                  result.args.segment)]
            j == Encode(segment_encoder.value, result.out.value)
        IN /\ \A k \in 0..(N - 1) : ~FloatLt(row[j], row[k])
           /\ \A k \in 0..(j - 1) : FloatLt(row[k], row[j])

\* C13 is exercised: both columns of the row share the maximum 1/2 and the
\* first one is returned.
C13_Witness ==
  /\ result.op = "predict_next_segment"
  /\ fit_completed
  /\ N = 2
  /\ Known(segment_encoder.value, result.args.segment)
  /\ LET row == transition_matrix.value[Encode(segment_encoder.value,
                                               result.args.segment)]
     IN row[0] = Div(1, 2) /\ row[1] = Div(1, 2)
  /\ result.out = Returns(segments.value[1])

\* C14: predict_journey(start, n_steps) on a fitted model, with start in the
\* vocabulary and n_steps >= 0, returns a sequence of n_steps + 1 labels
\* that begins with start and in which every later label is what
\* predict_next_segment returns for the label before it; [start] alone for
\* n_steps = 0.
C14_JourneyIsIteratedPrediction ==
  ( /\ result.op = "predict_journey"
    /\ fit_completed
    /\ Known(segment_encoder.value, result.args.segment)
    /\ result.args.n_steps >= 0 )
  => /\ result.out.status = "ok"
     /\ Len(result.out.value) = result.args.n_steps + 1
     /\ result.out.value[1] = result.args.segment
     /\ \A i \in 1..result.args.n_steps :
          result.out.value[i + 1] = predict_next_segment(result.out.value[i]).value
     /\ result.args.n_steps = 0 => result.out.value = <<result.args.segment>>

\* C14 is exercised: a walk of two steps that leaves the start segment and
\* then leaves the second segment again.
C14_Witness ==
  /\ result.op = "predict_journey"
  /\ fit_completed
  /\ result.args.n_steps = 2
  /\ result.out.status = "ok"
  /\ result.out.value[2] # result.out.value[1]
  /\ result.out.value[3] # result.out.value[2]

\* C15: segment_transition_probabilities(s) on a fitted model with s in the
\* vocabulary returns a mapping whose keys are exactly the labels of the
\* fitted vocabulary and whose value for label j equals
\* transition_matrix[index(s)][index(j)].
C15_ProbabilitiesAreTheRow ==
  ( /\ result.op = "segment_transition_probabilities"
    /\ fit_completed
    /\ Known(segment_encoder.value, result.args.segment) )
  => /\ result.out.status = "ok"
     /\ DOMAIN result.out.value = Range(segment_encoder.value)
     /\ \A l \in DOMAIN result.out.value :
          FloatEq(result.out.value[l],
                  transition_matrix.value[Encode(segment_encoder.value,
                                                 result.args.segment)]
                                         [Encode(segment_encoder.value, l)])

\* C16: fit called with an empty journey log (the three fields, no record)
\* does not raise and leaves the model with an empty vocabulary and an empty
\* (0 x 0) transition matrix.
C16_EmptyLogFitCompletes ==
  ( /\ result.op = "fit"
    /\ journey_data # NoData
    /\ journey_data.rows = <<>>
    /\ AllColumns \subseteq journey_data.columns )
  => /\ result = FitReturns
     /\ segment_encoder = Some(<<>>)
     /\ segments = Some(<<>>)
     /\ transition_matrix # None
     /\ DOMAIN transition_matrix.value = {}

\* C16 is exercised: fit has returned on the empty log of three fields.
C16_Witness ==
  /\ FitReturned
  /\ journey_data # NoData
  /\ journey_data.rows = <<>>
  /\ AllColumns \subseteq journey_data.columns
  /\ transition_matrix # None

\* C17: after fit on an empty journey log every call of predict_next_segment,
\* predict_journey, segment_transition_probabilities or most_likely_paths
\* fails with the 'model not fitted' error, for every argument: none fails
\* with another error and none returns a value.
C17_EmptyModelCallsFailNotFitted ==
  (fit_completed /\ N = 0) =>
    /\ pc # "mlp_loop"
    /\ result.op \in PredictionOps => result.out.status = "not_fitted"

\* C18: after fit, calls of predict_next_segment, predict_journey,
\* segment_transition_probabilities and most_likely_paths, returning or
\* failing, leave the fitted vocabulary and every entry of transition_matrix
\* as they are; only fit changes them: whenever one of them changes, it is a
\* call of fit that reports.
C18_OnlyFitChangesModel ==
  [][ ( \/ transition_matrix' # transition_matrix
        \/ segment_encoder' # segment_encoder
        \/ segments' # segments )
      => (result = NoResult /\ result'.op = "fit") ]_vars

\* C18 is exercised: segment_transition_probabilities has returned the row of
\* a segment without outbound transitions on a fitted model of two segments.
C18_Witness ==
  /\ fit_completed
  /\ N = 2
  /\ result.op = "segment_transition_probabilities"
  /\ result.out.status = "ok"
  /\ \E l \in DOMAIN result.out.value : IsNaN(result.out.value[l])

\* C19: re-fitting replaces the vocabulary and the matrix together: in every
\* state of an instance that has been fitted, the state left by a fit call
\* that raised part-way included, the stored matrix is N x N for the stored
\* vocabulary and holds the normalized counts of a completed fit, never a
\* zeroed or un-normalized matrix beside a new vocabulary.
C19_RefitIsAtomic ==
  fit_completed =>
    /\ segment_encoder = segments
    /\ DOMAIN transition_matrix.value = 0..(N - 1)
    /\ DOMAIN transition_counts.value = 0..(N - 1)
    /\ transition_matrix.value = Normalize(transition_counts.value, N)

\* Rank of a label in the sorted order of labels.
LabelRank(l) == CHOOSE k \in DOMAIN LabelOrder : LabelOrder[k] = l

\* The vocabulary of the log in journey_data, stated from the log alone: its
\* distinct labels in increasing order.
IsVocabularyOfLog(classes) ==
  /\ Range(classes) = {journey_data.rows[p]["segment"] : p \in DOMAIN journey_data.rows}
  /\ \A k \in 1..(Len(classes) - 1) : LabelRank(classes[k]) < LabelRank(classes[k + 1])

\* C20: the model after fit(L2) depends on L2 only: whatever was fitted on
\* the instance before (another log, the same log, nothing), the vocabulary
\* is that of L2 and every matrix entry is count(i -> j) over the row's
\* outbound count (nan for a row without any) in the sorted journeys of L2.
C20_FitDependsOnLogOnly ==
  FitReturned =>
    /\ IsVocabularyOfLog(segments.value)
    /\ segment_encoder = segments
    /\ DOMAIN transition_matrix.value = 0..(N - 1)
    /\ \E js \in JourneysOfLog :
         \A i, j \in 0..(N - 1) :
           transition_matrix.value[i][j] = Div(PairCount(js, i, j), OutCount(js, i, N - 1))

\* C20 is exercised: an instance fitted on a log of A -> A alone has been
\* fitted again on a log with a transition from B.
C20_Witness ==
  /\ FitReturned
  /\ model_before = Snapshot([segments |-> Some(<<"A">>),
                              transition_matrix |-> Some([i \in {0} |-> [j \in {0} |-> One]])])
  /\ segments = Some(<<"B">>)
  /\ transition_matrix = Some([i \in {0} |-> [j \in {0} |-> One]])

\* C22: the fitted vocabulary is exactly the set of distinct labels of the
\* log, each with its own index in 0..N-1, and the index of a label is
\* decided by the set of labels alone (the number of smaller labels in
\* sorted order), whatever the order of the records, their customers and
\* their timestamps.
C22_VocabularyIsSortedLabelSet ==
  FitReturned =>
    LET labels == {journey_data.rows[p]["segment"] : p \in DOMAIN journey_data.rows}
        Index(l) == Encode(segments.value, l)
    IN /\ Range(segments.value) = labels
       /\ N = Cardinality(labels)
       /\ \A l \in labels : Index(l) \in 0..(N - 1)
       /\ \A l, m \in labels : l # m => Index(l) # Index(m)
       /\ \A l \in labels :
            Index(l) = Cardinality({m \in labels : LabelRank(m) < LabelRank(l)})

\* C22 is exercised: the log shows B before A and A gets index 0.
C22_Witness ==
  /\ FitReturned
  /\ Len(journey_data.rows) >= 2
  /\ journey_data.rows[1]["segment"] = "B"
  /\ journey_data.rows[2]["segment"] = "A"
  /\ segments = Some(<<"A", "B">>)

\* The stable order of some rows by timestamp: ties keep their index order.
StablySorted(positions) ==
  LET n == Len(positions)
  IN CHOOSE s \in {[k \in 1..n |-> positions[pi[k]]] : pi \in Permutations(1..n)} :
       \A k \in 1..(n - 1) :
         \/ journey_data.rows[s[k]]["timestamp"] < journey_data.rows[s[k + 1]]["timestamp"]
         \/ /\ journey_data.rows[s[k]]["timestamp"] = journey_data.rows[s[k + 1]]["timestamp"]
            /\ s[k] < s[k + 1]

\* The counts of the transitions of every customer's stably sorted journey.
StableCounts ==
  LET customers == Unique(Column(journey_data, "customer_id"))
      journeys == [c \in Range(customers) |->
                     StablySorted(CustomerRows(journey_data, c))]
  IN CountCustomers(Zeros(N), Column(journey_data, "encoded_segment"),
                    customers, journeys, 1)

\* C23: when fit sorts one customer's records by timestamp, records with
\* equal timestamps keep their order in the log, so the transitions counted
\* are those of the stably sorted journeys and the fitted matrix is the one
\* they normalise to.
C23_TiesKeepInputOrder ==
  FitReturned =>
    /\ transition_counts = Some(StableCounts)
    /\ transition_matrix = Some(Normalize(StableCounts, N))

\* Lexicographic order on index sequences of one length.
LexLess(p, q) ==
  \E i \in DOMAIN p : p[i] < q[i] /\ \A j \in 1..(i - 1) : p[j] = q[j]

\* C24: at every top-k cut of most_likely_paths over candidates with
\* well-defined probabilities, candidates of equal probability are ranked by
\* the lexicographic order of their index sequences: the kept ones appear in
\* that order, and a candidate tied with a kept one and lexicographically
\* smaller is kept too.
C24_TiesCutInIndexOrder ==
  [][(/\ pc = "mlp_loop"
      /\ pc' = "mlp_loop"
      /\ frame' # frame
      /\ frame.args.top_k >= 1)
     => LET candidates == Expand(frame.paths, transition_matrix.value,
                                 Len(segment_encoder.value))
            kept == frame'.paths
        IN (\A c \in DOMAIN candidates : ~IsNaN(candidates[c].prob))
           => /\ \A i, j \in DOMAIN kept :
                   i < j /\ FloatEq(kept[i].prob, kept[j].prob)
                   => LexLess(kept[i].path, kept[j].path)
              /\ \A k \in DOMAIN kept, c \in DOMAIN candidates :
                   /\ FloatEq(candidates[c].prob, kept[k].prob)
                   /\ LexLess(candidates[c].path, kept[k].path)
                   => candidates[c] \in Range(kept)]_vars

\* C25: most_likely_paths on a fitted model, with a known start, n_steps >= 1
\* and top_k >= 1, returns no entry of probability 0 and no path along an
\* edge whose transition probability is 0.
C25_NoZeroProbabilityPathReturned ==
  ( /\ ValidPathsCall
    /\ result.args.n_steps >= 1 )
  => \A k \in DOMAIN result.out.value :
       LET entry == result.out.value[k]
           path == Indices(entry.path)
       IN /\ ~FloatEq(entry.probability, Zero)
          /\ \A i \in 1..(Len(path) - 1) :
               ~FloatEq(transition_matrix.value[path[i]][path[i + 1]], Zero)

\* Every segment of the fitted vocabulary has an observed outbound
\* transition: no row of the matrix is nan.
EveryRowObserved ==
  \A i, j \in 0..(N - 1) : ~IsNaN(transition_matrix.value[i][j])

\* The search of width 1 has come back while the journey asked for before,
\* over the same known start and steps, is still held, on a fitted model in
\* which every segment has an observed outbound transition.
BothAnswered ==
  /\ calls["t1"].pc = "done"
  /\ calls["t2"].pc = "done"
  /\ fit_completed
  /\ EveryRowObserved
  /\ Known(segment_encoder.value, calls["t1"].args.segment)

\* C28 as stated: on a fitted model in which every segment has an observed
\* outbound transition, most_likely_paths(start, n_steps, 1) with a known
\* start and n_steps >= 0 returns exactly one entry, and its path is the
\* journey predict_journey(start, n_steps) returns, ties included.
C28_BeamOfOneIsGreedyWalk ==
  BothAnswered
  => /\ calls["t2"].out.status = "ok"
     /\ Len(calls["t2"].out.value) = 1
     /\ calls["t1"].out.status = "ok"
     /\ calls["t2"].out.value[1].path = calls["t1"].out.value

\* C28, amended: on such a model most_likely_paths(start, n_steps, 1)
\* returns exactly one entry, and its path is the journey
\* predict_journey(start, n_steps) returns, ties included, whenever the
\* probability returned with it is a normal double (2^-1022 or more).
C28_BeamOfOneIsGreedyWalkWhileNormal ==
  BothAnswered
  => /\ calls["t2"].out.status = "ok"
     /\ Len(calls["t2"].out.value) = 1
     /\ calls["t1"].out.status = "ok"
     /\ FloatGe(calls["t2"].out.value[1].probability, MinNormal)
        => calls["t2"].out.value[1].path = calls["t1"].out.value

\* C28 is exercised: a search of width 1 over two steps that met the tie
\* of row B = [1/2, 1/2] and took A, as the greedy walk did.
C28_Witness ==
  /\ BothAnswered
  /\ calls["t2"].args.n_steps = 2
  /\ segments = Some(<<"A", "B">>)
  /\ transition_matrix.value[1][0] = Div(1, 2)
  /\ transition_matrix.value[1][1] = Div(1, 2)
  /\ calls["t1"].out.value = <<"A", "B", "A">>
  /\ calls["t2"].out.value[1].path = <<"A", "B", "A">>
  /\ calls["t2"].out.value[1].probability = Div(1, 2)

\* C29: on a fitted model with a segment or more, predict_next_segment(s)
\* for every s of the vocabulary, a segment without observed outbound
\* transition included, returns normally a label of the vocabulary; so a
\* call that was made returned such a label, and every element after the
\* first of a journey predict_journey returned is a label of the vocabulary.
C29_NextSegmentTotalOnVocabulary ==
  ( fit_completed /\ N >= 1 )
  => /\ \A s \in Range(segments.value) :
          /\ predict_next_segment(s).status = "ok"
          /\ predict_next_segment(s).value \in Range(segments.value)
     /\ ( /\ result.op = "predict_next_segment"
          /\ result.args.segment \in Range(segments.value) )
        => /\ result.out.status = "ok"
           /\ result.out.value \in Range(segments.value)
     /\ ( /\ result.op = "predict_journey"
          /\ result.args.segment \in Range(segments.value) )
        => /\ result.out.status = "ok"
           /\ \A i \in 2..Len(result.out.value) :
                result.out.value[i] \in Range(segments.value)

\* C29 is exercised: a journey of two steps was predicted from a segment
\* whose row holds no number.
C29_Witness ==
  /\ result.op = "predict_journey"
  /\ fit_completed
  /\ N = 2
  /\ result.args.segment \in Range(segments.value)
  /\ \A j \in 0..(N - 1) :
       IsNaN(transition_matrix.value[Encode(segment_encoder.value,
                                            result.args.segment)][j])
  /\ result.args.n_steps = 2
  /\ result.out.status = "ok"
  /\ Len(result.out.value) = 3

\* The matrix the journey A, B, A, B, B normalises to.
ExampleMatrix ==
  (0 :> (0 :> Zero @@ 1 :> One)
   @@ 1 :> (0 :> Div(1, 2) @@ 1 :> Div(1, 2)))

\* C26 as stated: on the model fitted on the journey A, B, A, B, B, row A is
\* [0, 1] and row B is [1/2, 1/2], predict_next_segment("A") returns "B" and
\* predict_journey("A", 2) returns A, B, B.
C26_ExampleJourneyEndsInB ==
  fit_completed =>
    /\ transition_matrix = Some(ExampleMatrix)
    /\ predict_next_segment("A") = Returns("B")
    /\ ( result.op = "predict_next_segment" /\ result.args.segment = "A" )
       => result.out = Returns("B")
    /\ ( /\ result.op = "predict_journey"
         /\ result.args = [segment |-> "A", n_steps |-> 2] )
       => result.out = Returns(<<"A", "B", "B">>)

\* C26, amended: on the model fitted on the journey A, B, A, B, B, row A is
\* [0, 1] and row B is [1/2, 1/2], predict_next_segment("A") returns "B" and
\* predict_journey("A", 2) returns A, B, A: the tie of row B goes to the
\* lowest index, which is A.
C26_ExampleJourneyEndsInA ==
  fit_completed =>
    /\ transition_matrix = Some(ExampleMatrix)
    /\ predict_next_segment("A") = Returns("B")
    /\ predict_next_segment("B") = Returns("A")
    /\ ( result.op = "predict_next_segment" /\ result.args.segment = "A" )
       => result.out = Returns("B")
    /\ ( /\ result.op = "predict_journey"
         /\ result.args = [segment |-> "A", n_steps |-> 2] )
       => result.out = Returns(<<"A", "B", "A">>)

\* C26 is exercised: predict_journey("A", 2) has returned on the example.
C26_Witness ==
  /\ fit_completed
  /\ transition_matrix = Some(ExampleMatrix)
  /\ result.op = "predict_journey"
  /\ result.args = [segment |-> "A", n_steps |-> 2]
  /\ result.out.status = "ok"

Max(a, b) == IF a > b THEN a ELSE b

\* C27: on a fitted model predict_journey and most_likely_paths terminate
\* after exactly n_steps loop iterations (none for n_steps <= 0): a journey
\* returned for a known start has max(n_steps, 0) + 1 elements, cycles and
\* segments without outbound transition included; the loop of
\* most_likely_paths never runs past max(n_steps, 0) iterations, returns
\* only after exactly that many, each adding one segment to every path; and
\* a call that is in the loop does return.
C27_LoopsRunNStepsAndReturn ==
  /\ []( ( /\ result.op = "predict_journey"
           /\ fit_completed
           /\ Known(segment_encoder.value, result.args.segment) )
         => /\ result.out.status = "ok"
            /\ Len(result.out.value) = Max(result.args.n_steps, 0) + 1 )
  /\ []( pc = "mlp_loop"
         => /\ frame.iterations <= Max(frame.args.n_steps, 0)
            /\ \A k \in DOMAIN frame.paths :
                 Len(frame.paths[k].path) = frame.iterations + 1 )
  /\ [][ (pc = "mlp_loop" /\ pc' = "idle")
         => /\ frame.iterations = Max(frame.args.n_steps, 0)
            /\ result'.op = "most_likely_paths"
            /\ result'.out.status = "ok" ]_vars
  /\ (pc = "mlp_loop") ~> (pc = "idle")

\* C27 is exercised: the loop of most_likely_paths has run its two
\* iterations on a fitted model along a path that came back to its start.
C27_Witness ==
  /\ pc = "mlp_loop"
  /\ fit_completed
  /\ frame.args.n_steps = 2
  /\ frame.iterations = 2
  /\ Len(frame.paths) >= 1
  /\ frame.paths[1].path[3] = frame.paths[1].path[1]

\* What a call returns or raises when it runs alone on the instance.
Alone(op, args) ==
  CASE op = "predict_next_segment" -> {predict_next_segment(args.segment)}
    [] op = "segment_transition_probabilities" ->
         {segment_transition_probabilities(args.segment)}
    [] op = "predict_journey" -> {predict_journey(args.segment, args.n_steps)}
    [] op = "most_likely_paths" ->
         most_likely_paths(args.segment, args.n_steps, args.top_k)

\* C21: once fit has completed, prediction calls made by several threads
\* on the one instance, their steps interleaved in any way, each return
\* what they return when run alone: the outcome of a finished call is one
\* the call has alone, and the working set of a call inside the loop of
\* most_likely_paths is one the loop holds alone after as many iterations.
C21_ConcurrentCallsReturnAsAlone ==
  \A t \in Callers :
    /\ calls[t].pc = "done" => calls[t].out \in Alone(calls[t].op, calls[t].args)
    /\ ( calls[t].pc = "loop" /\ calls[t].op = "most_likely_paths" )
       => calls[t].paths \in
            BeamLoop({InitialPaths(Encode(segment_encoder.value,
                                          calls[t].args.segment))},
                     calls[t].iterations, calls[t].args.top_k)

\* C21 is exercised: a search of two steps has finished in one thread while
\* another thread, searching from another segment, is between its two
\* iterations.
C21_Witness ==
  /\ calls["t1"].pc = "done"
  /\ calls["t1"].op = "most_likely_paths"
  /\ calls["t1"].args.n_steps = 2
  /\ calls["t1"].out.status = "ok"
  /\ calls["t2"].pc = "loop"
  /\ calls["t2"].op = "most_likely_paths"
  /\ calls["t2"].args.n_steps = 2
  /\ calls["t2"].iterations = 1
  /\ calls["t2"].args.segment # calls["t1"].args.segment

====
